---- MODULE Spec2Model ----
(***************************************************************************)
(* Model of setup/new_subl_pkg.py: the template acquisition and expansion  *)
(* engine of the package scaffolding script.                               *)
(*                                                                         *)
(* A Python str is modelled as a sequence of one-character strings, so     *)
(* that prefix tests, concatenation and the regular expression scan are    *)
(* computed character by character, as the interpreter computes them.      *)
(***************************************************************************)
EXTENDS Integers, Sequences, FiniteSets, TLC

VARIABLES
    pc,         \* position of the script / of the function under study
    argv,       \* the command line as parsed by parser.parse_args()
    args,       \* the Namespace as validate_arguments leaves it
    file_list,  \* path_filter: the list of paths handed in
    result,     \* path_filter: the list of paths handed back
    raw,        \* expand_template_contents: the text read from the source file
    variables,  \* TemplateData.variables: name -> replacement text
    cooked,     \* expand_template_contents: the text written to the destination
    fs,         \* the regular files on disk: absolute path -> file
    dirs,       \* the directories on disk (absolute paths)
    repo,       \* the branch of the remote repository: relative path -> file
    others,     \* untracked, not ignored files of a local git work tree
    job,        \* the TemplateData built by get_input_file_list
    idx,        \* expand_template: index of the next entry of template.files
    log,        \* the commands run and filesystem calls made, in order
    error,      \* the call that raised, NoError while none has
    fs0,        \* the files on disk when the script starts
    dirs0       \* the directories on disk when the script starts

scriptVars == <<fs, dirs, repo, others, job, idx, log, error, fs0, dirs0>>
vars == <<pc, argv, args, file_list, result, raw, variables, cooked, scriptVars>>

\* Python's None. A str is a sequence of one-character strings, so this
\* one-element sequence is different from every str.
None == <<"None">>

NoError == "none"

----------------------------------------------------------------------------
(* Bounds of the model *)

\* a template text is built from at most this many pieces of TextPieces
MaxPieces == 3

\* longest list of paths handed to path_filter
MaxFiles == 2

\* most files a single rmtree(..., ignore_errors=True) fails to remove
MaxStuck == 1

\* longest package name given to name_to_slug
MaxName == 3

----------------------------------------------------------------------------
(* str helpers *)

\* str.startswith
StartsWith(s, p) ==
    /\ Len(p) <= Len(s)
    /\ \A i \in 1..Len(p) : s[i] = p[i]

\* all strings over alphabet A of length at most n
StringsUpTo(A, n) == UNION {[1..k -> A] : k \in 0..n}

\* the substring s[i..j] (1-based, inclusive)
Slice(s, i, j) == SubSeq(s, i, j)

\* "sub in s" for a non-empty str sub
Contains(s, sub) ==
    \E i \in 1..(Len(s) - Len(sub) + 1) : Slice(s, i, i + Len(sub) - 1) = sub

\* os.path.join(a, b) for two components (posixpath)
join(a, b) ==
    IF b # <<>> /\ b[1] = "/" THEN b
    ELSE IF a = <<>> \/ a[Len(a)] = "/" THEN a \o b
    ELSE a \o <<"/">> \o b

\* truth value of an optional str: None and '' are false
Truthy(s) == s # None /\ s # <<>>

OpenBraces == <<"{", "{">>
CloseBraces == <<"}", "}">>

----------------------------------------------------------------------------
(* validate_arguments: the skip folder; path_filter *)

\* the skip folder kept as given, without the trailing separator
skip_folder_AsGiven(a) == IF a.no_skip THEN None ELSE a.skip

\* validate_arguments, lines 271-279: --no-skip removes the skip folder; a
\* skip folder gets a trailing path separator
skip_folder(a) ==
    LET skip == IF a.no_skip THEN None ELSE a.skip IN
    IF Truthy(skip) THEN join(skip, <<>>) ELSE skip

\* the lambda of path_filter: n and (not args.skip or not n.startswith(args.skip))
path_filter_keeps(skip, n) ==
    n # <<>> /\ (~Truthy(skip) \/ ~StartsWith(n, skip))

\* path_filter(args, file_list); the filter object is consumed in order by
\* list() and list.extend()
path_filter(a, files) ==
    SelectSeq(files, LAMBDA n : path_filter_keeps(a.skip, n))

----------------------------------------------------------------------------
(* expand_template_contents: re.sub(r"{{([^}]+)}}", expand, raw) *)

\* [^}]+ is greedy: from position i it takes every character up to the next
\* "}" or the end of the text. The result is the index of the last character
\* taken (i - 1 when none can be taken).
RECURSIVE RunEnd(_, _)
RunEnd(text, i) ==
    IF i > Len(text) \/ text[i] = "}" THEN i - 1 ELSE RunEnd(text, i + 1)

\* After the greedy run the engine needs "}}"; when that fails it gives back
\* one character of the run at a time, down to a run of one character. The
\* result is the index of the last character of the match, 0 for no match.
RECURSIVE Backtrack(_, _, _)
Backtrack(text, i, e) ==
    IF e < i THEN 0
    ELSE IF e + 2 <= Len(text) /\ text[e + 1] = "}" /\ text[e + 2] = "}"
         THEN e + 2
         ELSE Backtrack(text, i, e - 1)

\* the match of {{([^}]+)}} that starts exactly at position i, if any
MatchEnd(text, i) ==
    IF i + 1 <= Len(text) /\ text[i] = "{" /\ text[i + 1] = "{"
    THEN Backtrack(text, i + 2, RunEnd(text, i + 2))
    ELSE 0

\* match.group(1) of the match text[i..e]
Group1(text, i, e) == Slice(text, i + 2, e - 2)

\* expand with an empty default, as in template.variables.get(name, '')
expand_EmptyDefault(tvars, name) ==
    IF name \in DOMAIN tvars THEN tvars[name] ELSE <<>>

\* the nested function expand of expand_template_contents:
\* template.variables.get(name, '{{' + name + '}}')
expand(tvars, name) ==
    IF name \in DOMAIN tvars THEN tvars[name]
    ELSE OpenBraces \o name \o CloseBraces

\* re.sub with count=1: only the first match is replaced
ReSub_FirstOnly(tvars, text, i) ==
    LET starts == {k \in i..Len(text) : MatchEnd(text, k) # 0} IN
    IF starts = {} THEN Slice(text, i, Len(text))
    ELSE LET k == CHOOSE m \in starts : \A n \in starts : m <= n
             e == MatchEnd(text, k)
         IN Slice(text, i, k - 1) \o expand(tvars, Group1(text, k, e))
                \o Slice(text, e + 1, Len(text))

\* re.sub: scan from position i; a match is replaced and the scan resumes
\* after it, any other character is copied and the scan moves on by one.
RECURSIVE ReSub(_, _, _)
ReSub(tvars, text, i) ==
    IF i > Len(text) THEN <<>>
    ELSE LET e == MatchEnd(text, i) IN
         IF e = 0 THEN <<text[i]>> \o ReSub(tvars, text, i + 1)
         ELSE expand(tvars, Group1(text, i, e)) \o ReSub(tvars, text, e + 1)

expand_template_contents(tvars, text) == ReSub(tvars, text, 1)

----------------------------------------------------------------------------
(* The expander applied to every bounded text and mapping *)

RECURSIVE Flatten(_)
Flatten(ss) == IF ss = <<>> THEN <<>> ELSE Head(ss) \o Flatten(Tail(ss))

\* the pieces template texts are built from: single characters and tokens
TextPieces ==
    { <<"{">>, <<"}">>, <<"a">>,
      <<"{", "{", "a", "}", "}">>,
      <<"{", "{", "a", "a", "}", "}">> }
Texts == {Flatten(ps) : ps \in StringsUpTo(TextPieces, MaxPieces)}

\* names a mapping may define, and the values it may give them
KeyNames == {<<"a">>, <<"a", "a">>}
Values == {<<>>, <<"a">>, <<"{">>, <<"{", "{", "a", "a", "}", "}">>}
Mappings == UNION {[K -> Values] : K \in SUBSET KeyNames}

\* the script's own state, while a single function is studied
ScriptIdle ==
    /\ fs = <<>> /\ dirs = {} /\ repo = <<>> /\ others = {}
    /\ job = None /\ idx = 0 /\ log = <<>> /\ error = NoError
    /\ fs0 = <<>> /\ dirs0 = {}

\* the variables the expander does not use
ExpandIdle ==
    /\ argv = None
    /\ args = None
    /\ file_list = <<>>
    /\ result = <<>>
    /\ ScriptIdle

ExpandInit ==
    /\ pc = "read"
    /\ ExpandIdle
    /\ raw \in Texts
    /\ variables \in Mappings
    /\ cooked = <<>>

ExpandText ==
    /\ pc = "read"
    /\ cooked' = expand_template_contents(variables, raw)
    /\ pc' = "written"
    /\ UNCHANGED <<argv, args, file_list, result, raw, variables, scriptVars>>

ExpandNext == ExpandText

SpecExpand == ExpandInit /\ [][ExpandNext]_vars

----------------------------------------------------------------------------
(* Tokens of a text, stated on the text itself *)

\* text[i..j] has the form {{name}} with a non-empty name free of "}"
IsToken(text, i, j) ==
    /\ 1 <= i /\ i + 4 <= j /\ j <= Len(text)
    /\ text[i] = "{" /\ text[i + 1] = "{"
    /\ text[j - 1] = "}" /\ text[j] = "}"
    /\ \A k \in (i + 2)..(j - 2) : text[k] # "}"

TokenAt(text, i) ==
    IF text[i] = "{" THEN {j \in (i + 4)..Len(text) : IsToken(text, i, j)} ELSE {}

\* the tokens met by one left-to-right pass that starts at position p: the
\* leftmost token at or after p, then the pass resumes behind it
RECURSIVE PassTokens(_, _)
PassTokens(text, p) ==
    LET starts == {i \in p..Len(text) : TokenAt(text, i) # {}} IN
    IF starts = {} THEN {}
    ELSE LET i == CHOOSE m \in starts : \A n \in starts : m <= n
             j == CHOOSE m \in TokenAt(text, i) : TRUE
         IN {<<i, j>>} \cup PassTokens(text, j + 1)

TokenName(text, t) == Slice(text, t[1] + 2, t[2] - 2)

\* the result of the pass: text outside tokens stays, a token becomes the
\* value of its name or, for an unknown name, the token text itself
RECURSIVE OnePass(_, _, _)
OnePass(tvars, text, p) ==
    LET toks == PassTokens(text, p)
        here == {t \in toks : \A u \in toks : t[1] <= u[1]}
    IN
    IF here = {} THEN Slice(text, p, Len(text))
    ELSE LET t == CHOOSE u \in here : TRUE
             name == TokenName(text, t)
         IN Slice(text, p, t[1] - 1)
              \o (IF name \in DOMAIN tvars THEN tvars[name] ELSE Slice(text, t[1], t[2]))
              \o OnePass(tvars, text, t[2] + 1)

AllTokensKnown(tvars, text) ==
    \A t \in PassTokens(text, 1) : TokenName(text, t) \in DOMAIN tvars

NoTokenKnown(tvars, text) ==
    \A t \in PassTokens(text, 1) : TokenName(text, t) \notin DOMAIN tvars

----------------------------------------------------------------------------
(* Claims about the Variable Expander *)

\* C4: the expander's output is the result of one left-to-right pass that
\* replaces each token {{name}} by variables[name] when name is a key and by
\* the identical token text when it is not. In particular a text without
\* tokens, and a text whose tokens are all unknown, come back unchanged.
C4_OnePassExpansion ==
    pc = "written" =>
        /\ cooked = OnePass(variables, raw, 1)
        /\ (PassTokens(raw, 1) = {} => cooked = raw)
        /\ (NoTokenKnown(variables, raw) => cooked = raw)

\* C4 witness: a known token whose value holds a token of another known
\* name, next to an unknown token; the value is written as it is and is not
\* expanded again, the unknown token reappears.
C4_Witness ==
    /\ pc = "written"
    /\ raw = <<"{", "{", "a", "}", "}", "{", "{", "{", "a", "}", "}">>
    /\ DOMAIN variables = KeyNames
    /\ variables[<<"a">>] = <<"{", "{", "a", "a", "}", "}">>
    /\ variables[<<"a", "a">>] = <<"a">>
    /\ cooked = <<"{", "{", "a", "a", "}", "}", "{", "{", "{", "a", "}", "}">>

\* C5, as stated: when every token's name is a key, no "{{" is left in the
\* output.
C5_NoOpenBracesSurvive ==
    (pc = "written" /\ AllTokensKnown(variables, raw))
        => ~Contains(cooked, OpenBraces)

\* every "{{" of the text is the opening of a token of the pass
EveryOpenIsToken(text) ==
    \A i \in 1..(Len(text) - 1) :
        (text[i] = "{" /\ text[i + 1] = "{")
            => \E t \in PassTokens(text, 1) : t[1] = i

NoBraceInValues(tvars) ==
    \A k \in DOMAIN tvars : \A i \in 1..Len(tvars[k]) : tvars[k][i] # "{"

\* C5, amended: when every token's name is a key, every token is replaced by
\* its value; no "{{" is left in the output provided every "{{" of the text
\* opens a token and no value holds a "{".
C5_TokensReplaced ==
    (pc = "written" /\ AllTokensKnown(variables, raw)) =>
        /\ cooked = OnePass(variables, raw, 1)
        /\ (EveryOpenIsToken(raw) /\ NoBraceInValues(variables))
                => ~Contains(cooked, OpenBraces)

\* C5 witness: two known tokens, both replaced, no "{{" left
C5_Witness ==
    /\ pc = "written"
    /\ raw = <<"{", "{", "a", "}", "}", "a", "{", "{", "a", "a", "}", "}">>
    /\ DOMAIN variables = KeyNames
    /\ NoBraceInValues(variables)
    /\ variables[<<"a">>] = <<"a">>
    /\ variables[<<"a", "a">>] = <<>>
    /\ cooked = <<"a", "a">>

----------------------------------------------------------------------------
(* The prefix filter applied to every bounded file list and skip folder *)

FilterAlphabet == {"s", "/", "2"}
FilterPaths ==
    StringsUpTo(FilterAlphabet, 2)
        \cup {<<"s", "/", "2">>, <<"s", "2", "/">>, <<"2", "/", "s">>, <<"s", "/", "/">>}
SkipFolders == {None, <<>>, <<"s">>, <<"s", "/">>}

FilterIdle ==
    /\ raw = <<>>
    /\ variables = <<>>
    /\ cooked = <<>>
    /\ ScriptIdle

FilterInit ==
    /\ pc = "parsed"
    /\ argv \in [skip : SkipFolders, no_skip : BOOLEAN]
    /\ args = argv
    /\ file_list \in StringsUpTo(FilterPaths, MaxFiles)
    /\ result = <<>>
    /\ FilterIdle

\* validate_arguments, as far as the skip folder goes
FilterValidate ==
    /\ pc = "parsed"
    /\ args' = [args EXCEPT !.skip = skip_folder(args)]
    /\ pc' = "validated"
    /\ UNCHANGED <<argv, file_list, result, raw, variables, cooked, scriptVars>>

FilterApply ==
    /\ pc = "validated"
    /\ result' = path_filter(args, file_list)
    /\ pc' = "filtered"
    /\ UNCHANGED <<argv, args, file_list, raw, variables, cooked, scriptVars>>

FilterNext == FilterValidate \/ FilterApply

SpecFilter == FilterInit /\ [][FilterNext]_vars

----------------------------------------------------------------------------
(* Claims about the prefix filter *)

\* exclusion is configured: a skip folder was given and not disabled
ExclusionOn(a) == ~a.no_skip /\ Truthy(a.skip)

\* path n lies under folder P: it starts with P followed by a separator
\* (a P that already ends with the separator is not given a second one)
Under(n, P) ==
    StartsWith(n, IF P[Len(P)] = "/" THEN P ELSE P \o <<"/">>)

\* the paths the claim wants dropped for the command line a
Excluded(a, n) == n = <<>> \/ (ExclusionOn(a) /\ Under(n, a.skip))

Occurrences(seq, n) == Cardinality({i \in 1..Len(seq) : seq[i] = n})

\* sub is seq with some entries left out, the others in their order
IsSubsequence(sub, seq) ==
    \E f \in [1..Len(sub) -> 1..Len(seq)] :
        /\ \A i \in 1..Len(sub) : sub[i] = seq[f[i]]
        /\ \A i \in 1..(Len(sub) - 1) : f[i] < f[i + 1]

\* C6, amended: the filter returns exactly the input paths that are
\* non-empty and not under P (P followed by a separator), in their original
\* order; a path that only shares leading characters with P survives, and so
\* does a path equal to a P given without trailing separator; with exclusion
\* disabled only empty paths are dropped.
C6_FilterExact ==
    pc = "filtered" =>
        /\ IsSubsequence(result, file_list)
        /\ \A n \in FilterPaths :
              Occurrences(result, n) =
                  IF Excluded(argv, n) THEN 0 ELSE Occurrences(file_list, n)

\* C6 witness: skip folder "s"; "s/2" is dropped, "s2" and "s" survive in
\* their order
C6_Witness ==
    /\ pc = "filtered"
    /\ argv.skip = <<"s">> /\ ~argv.no_skip
    /\ \E i \in 1..Len(file_list) : file_list[i] = <<"s", "/", "2">>
    /\ \E i \in 1..Len(file_list) : file_list[i] = <<"s", "2">>
    /\ result = <<<<"s", "2">>>>

\* C6, as stated: as above, and no surviving path equals P
C6_NoSurvivorEqualsPrefix ==
    pc = "filtered" =>
        /\ IsSubsequence(result, file_list)
        /\ \A n \in FilterPaths :
              Occurrences(result, n) =
                  IF Excluded(argv, n) THEN 0 ELSE Occurrences(file_list, n)
        /\ (ExclusionOn(argv) =>
              \A i \in 1..Len(result) :
                  result[i] # argv.skip /\ ~Under(result[i], argv.skip))

----------------------------------------------------------------------------
(* Paths and the filesystem *)

\* os.getcwd()
cwd == <<"/", "w">>

\* os.path.abspath for the relative, already normal paths of the model
abspath(p) == join(cwd, p)

\* index of the last "/" of p, 0 when there is none
LastSlash(p) ==
    LET at == {i \in 1..Len(p) : p[i] = "/"} IN
    IF at = {} THEN 0 ELSE CHOOSE i \in at : \A k \in at : k <= i

\* a path without its trailing separators
RECURSIVE rstrip_sep(_)
rstrip_sep(p) ==
    IF p # <<>> /\ p[Len(p)] = "/" THEN rstrip_sep(Slice(p, 1, Len(p) - 1)) ELSE p

\* os.path.split: <<head, tail>>; the head loses its trailing separators
\* unless it consists of separators only
split(p) ==
    LET i == LastSlash(p)
        head == Slice(p, 1, i)
    IN <<IF rstrip_sep(head) = <<>> THEN head ELSE rstrip_sep(head),
         Slice(p, i + 1, Len(p))>>

\* path p lies inside directory d
Inside(p, d) == StartsWith(p, d \o <<"/">>) /\ Len(p) > Len(d) + 1

\* the directories on the way down to directory d, d included
Ancestors(d) ==
    {Slice(d, 1, i - 1) : i \in {k \in 2..Len(d) : d[k] = "/"}} \cup {d}

\* os.path.exists and os.path.isdir
exists(fsv, dirsv, p) == p \in DOMAIN fsv \/ p \in dirsv
isdir(dirsv, p) == p \in dirsv

\* the files of fsv other than those of the set gone
Without(fsv, gone) == [q \in DOMAIN fsv \ gone |-> fsv[q]]

\* fsv with file f at path p (created or overwritten)
WithFile(fsv, p, f) == [q \in DOMAIN fsv \cup {p} |-> IF q = p THEN f ELSE fsv[q]]

\* os.makedirs(d, exist_ok=True)
makedirs(dirsv, d) == dirsv \cup Ancestors(d)

\* an rmtree that removes nothing
rmtree_Nothing(fsv, dirsv, root, stuck) == [fs |-> fsv, dirs |-> dirsv]

\* shutil.rmtree(root, ignore_errors=True). Every error is swallowed: a root
\* that is missing or is no directory is left alone, and the files of the
\* set stuck (those whose removal fails) stay, with the directories that
\* hold them.
rmtree(fsv, dirsv, root, stuck) ==
    LET r == rstrip_sep(root) IN
    IF r \notin dirsv THEN [fs |-> fsv, dirs |-> dirsv]
    ELSE [fs |-> Without(fsv, {q \in DOMAIN fsv : Inside(q, r)} \ stuck),
          dirs |-> {d \in dirsv :
                       \/ ~(d = r \/ Inside(d, r))
                       \/ \E q \in stuck : Inside(q, d)}]

\* the sets of files an rmtree of root may fail to remove: the model lets
\* the removal fail on up to MaxStuck files of the tree
StuckSets(fsv, root) ==
    LET below == {q \in DOMAIN fsv : Inside(q, rstrip_sep(root))}
        n == IF Cardinality(below) < MaxStuck THEN Cardinality(below) ELSE MaxStuck
    IN SUBSET (CHOOSE S \in SUBSET below : Cardinality(S) = n)

----------------------------------------------------------------------------
(* name_to_slug and the template variables *)

\* the upper case letters of the model and their lower case forms
LowerOf ==
    ("A" :> "a") @@ ("B" :> "b") @@ ("L" :> "l") @@ ("P" :> "p")
        @@ ("R" :> "r") @@ ("T" :> "t") @@ ("U" :> "u")

\* c.isupper(), c.islower() and c.lower() for one character
char_isupper(c) == c \in DOMAIN LowerOf
char_islower(c) == \E u \in DOMAIN LowerOf : LowerOf[u] = c
char_lower(c) == IF c \in DOMAIN LowerOf THEN LowerOf[c] ELSE c

\* str.isupper(): at least one cased character, and no lower case one
str_isupper(t) ==
    /\ \E i \in 1..Len(t) : char_isupper(t[i])
    /\ \A i \in 1..Len(t) : ~char_islower(t[i])

\* str.lower()
str_lower(t) == [i \in 1..Len(t) |-> char_lower(t[i])]

\* the loop of name_to_slug over input_name[1:]
RECURSIVE slug_loop(_, _, _)
slug_loop(name, rest, last_upper) ==
    IF rest = <<>> THEN name
    ELSE LET c == Head(rest) IN
         slug_loop(IF char_isupper(c) /\ ~last_upper
                       THEN name \o <<"-", char_lower(c)>>
                       ELSE name \o <<c>>,
                   Tail(rest), char_isupper(c))

\* name_to_slug(input_name), for a non-empty name
name_to_slug(input_name) ==
    IF str_isupper(input_name) THEN str_lower(input_name)
    ELSE slug_loop(<<char_lower(input_name[1])>>, Tail(input_name), FALSE)

\* str(datetime.now().year)
CurrentYear == <<"2", "0", "2", "4">>

KeyPackageName == <<"P", "a", "c", "k", "a", "g", "e", "N", "a", "m", "e">>
KeyPackageTitle == <<"P", "a", "c", "k", "a", "g", "e", "T", "i", "t", "l", "e">>
KeyPackageURLSlug ==
    <<"P", "a", "c", "k", "a", "g", "e", "U", "R", "L", "S", "l", "u", "g">>
KeyYear == <<"Y", "e", "a", "r">>
KeySublimeVersion ==
    <<"S", "u", "b", "l", "i", "m", "e", "V", "e", "r", "s", "i", "o", "n">>

\* get_template_variables(args)
get_template_variables(a) ==
    (KeyPackageName :> a.package) @@ (KeyPackageTitle :> a.title)
        @@ (KeyPackageURLSlug :> a.url_slug) @@ (KeyYear :> CurrentYear)
        @@ (KeySublimeVersion :> a.sublime_version)

----------------------------------------------------------------------------
(* validate_arguments *)

\* a package path that is never found on disk
package_exists_Never(a, fsv, dirsv) == FALSE

\* exists(args.package)
package_exists(a, fsv, dirsv) == exists(fsv, dirsv, abspath(a.package))

\* args.path once --use-installed has been put into it
local_path(a) == IF Truthy(a.use_installed) THEN a.use_installed ELSE a.path

\* the conditions under which validate_arguments calls parser.error
usage_error(a, fsv, dirsv) ==
    \/ Truthy(a.path) /\ Truthy(a.use_installed)
    \/ a.package = None
    \/ package_exists(a, fsv, dirsv)
    \/ local_path(a) # None /\ ~isdir(dirsv, abspath(local_path(a)))

\* the Namespace validate_arguments returns
validate_arguments(a) ==
    LET title == IF Truthy(a.title) THEN a.title ELSE a.package
        slug == IF Truthy(a.url_slug) THEN a.url_slug ELSE name_to_slug(a.package)
    IN [a EXCEPT !.path = local_path(a),
                 !.skip = skip_folder(a),
                 !.title = title,
                 !.url_slug = slug]

----------------------------------------------------------------------------
(* name_to_slug under validate_arguments: package names drawn from a small
   alphabet of upper case, lower case and uncased characters *)

SlugAlphabet == {"a", "U", "R", "2", "-"}
PackageNames == StringsUpTo(SlugAlphabet, MaxName) \ {<<>>}
GivenSlugs == {None, <<"x">>}

\* the command line of a remote run that names the package
SlugCommandLine(name, slug) ==
    [path |-> None, use_installed |-> None, package |-> name,
     skip |-> <<"s", "/">>, no_skip |-> FALSE, title |-> None,
     url_slug |-> slug, sublime_version |-> <<"4", "1", "6", "9">>]

SlugIdle ==
    /\ file_list = <<>> /\ result = <<>>
    /\ raw = <<>> /\ cooked = <<>>
    /\ ScriptIdle

SlugInit ==
    /\ pc = "parsed"
    /\ \E name \in PackageNames, slug \in GivenSlugs :
           argv = SlugCommandLine(name, slug)
    /\ args = argv
    /\ variables = <<>>
    /\ SlugIdle

\* validate_arguments on a command line it accepts
SlugValidate ==
    /\ pc = "parsed"
    /\ ~usage_error(args, fs, dirs)
    /\ args' = validate_arguments(args)
    /\ pc' = "validated"
    /\ UNCHANGED <<argv, file_list, result, raw, variables, cooked, scriptVars>>

\* get_template_variables on the validated arguments
SlugVariables ==
    /\ pc = "validated"
    /\ variables' = get_template_variables(args)
    /\ pc' = "named"
    /\ UNCHANGED <<argv, args, file_list, result, raw, cooked, scriptVars>>

SlugNext == SlugValidate \/ SlugVariables

SpecSlug == SlugInit /\ [][SlugNext]_vars

----------------------------------------------------------------------------
(* Claims about name_to_slug *)

\* the places of a name where its documentation lets name_to_slug put a
\* dash: before an upper case letter that is not the first character and does
\* not follow an upper case letter
DashPlaces(name) ==
    {i \in 2..Len(name) : char_isupper(name[i]) /\ ~char_isupper(name[i - 1])}

\* the name in lower case with a dash put before the places D
SlugPiece(name, D, i) ==
    IF i \in D THEN <<"-", char_lower(name[i])>> ELSE <<char_lower(name[i])>>
SlugWith(name, D) == Flatten([i \in 1..Len(name) |-> SlugPiece(name, D, i)])

\* the slug was defaulted from the package name and is now a template variable
SlugDefaulted == pc = "named" /\ argv.url_slug = None

\* C11, as stated: the defaulted PackageURLSlug holds no upper case character,
\* and is the package name in lower case with dashes put only before the
\* first letter of a run of upper case letters after the first character, so
\* that a run such as URL becomes url
C11_SlugAllLowerCase ==
    SlugDefaulted =>
        LET slug == variables[KeyPackageURLSlug] IN
        /\ \A i \in 1..Len(slug) : ~char_isupper(slug[i])
        /\ \E D \in SUBSET DashPlaces(argv.package) :
               slug = SlugWith(argv.package, D)

----------------------------------------------------------------------------
(* The file enumerators *)

\* ord(c) for the characters of the template's paths
Ord ==
    ("-" :> 45) @@ ("." :> 46) @@ ("/" :> 47) @@ ("0" :> 48) @@ ("A" :> 65)
        @@ ("a" :> 97) @@ ("b" :> 98) @@ ("c" :> 99) @@ ("d" :> 100) @@ ("s" :> 115)

\* a < b for two str, as bytes
RECURSIVE LexLess(_, _)
LexLess(a, b) ==
    IF a = <<>> THEN b # <<>>
    ELSE IF b = <<>> THEN FALSE
    ELSE IF a[1] # b[1] THEN Ord[a[1]] < Ord[b[1]]
    ELSE LexLess(Tail(a), Tail(b))

\* the paths of S in ascending order, the order git lists its index in
RECURSIVE Sorted(_)
Sorted(S) ==
    IF S = {} THEN <<>>
    ELSE LET m == CHOOSE x \in S : \A y \in S \ {x} : LexLess(x, y)
         IN <<m>> \o Sorted(S \ {m})

RECURSIVE Reverse(_)
Reverse(q) == IF q = <<>> THEN <<>> ELSE Reverse(Tail(q)) \o <<Head(q)>>

\* files.split('\n') for the output of git ls-files: one line per path,
\* and the empty str that follows the last newline
ls_files_lines(S) == Sorted(S) \o <<<<>>>>

\* get_git_file_list(args, repo_dir): the tracked files, then the untracked
\* ones that are not ignored, each list filtered
get_git_file_list(a, tracked, untracked) ==
    path_filter(a, ls_files_lines(tracked)) \o path_filter(a, ls_files_lines(untracked))

\* get_folder_file_list(args, base_dir) for the files os.walk yields
get_folder_file_list(a, walked) == path_filter(a, walked)

\* the files below directory d, as paths relative to d
FilesBelow(fsv, d) ==
    {Slice(q, Len(d) + 2, Len(q)) : q \in {x \in DOMAIN fsv : Inside(x, d)}}

GitDir == <<".", "g", "i", "t">>

----------------------------------------------------------------------------
(* handle_template_file *)

\* a file on disk: what binaryornot makes of its bytes, the bytes, the mode
File(bin, data, mode) == [bin |-> bin, data |-> data, mode |-> mode]

\* the mode of a file created by open(dst, 'w')
DefaultMode == "644"

\* one entry of the log: the call, the path it is about and a flag: for a
\* temporary name and for a write, whether a file was at that path already;
\* for rmtree, whether some removal failed
Call(op, path, hit) == [op |-> op, path |-> path, hit |-> hit]

\* a classifier that takes every file for text
is_binary_Never(f) == FALSE

\* binaryornot.check.is_binary(src), decided by the bytes of the file
is_binary(f) == f.bin

\* the original is kept and the temporary file copied over it
replace_original_KeepTemp(fsv, src, dst) == WithFile(fsv, src, fsv[dst])

\* unlink(src); rename(dst, src)
replace_original(fsv, src, dst) == Without(WithFile(fsv, src, fsv[dst]), {dst})

\* the outcome of a call of handle_template_file
Outcome(fsv, dirsv, calls, err) ==
    [fs |-> fsv, dirs |-> dirsv, calls |-> calls, error |-> err]

\* the calls of handle_template_file that may raise
Stops ==
    {"none", "makedirs", "is_binary", "open", "write", "copystat", "copy2",
     "unlink", "rename"}

\* handle_template_file(template, src, dst); stop names the call that
\* raises in this run ("none": no call does). A source file that is not on
\* disk makes is_binary raise.
handle_template_file(fsv, dirsv, tvars, src, dst, stop) ==
    LET src_path == split(src)[1]
        src_file == split(src)[2]
        dst_path == split(dst)[1]
        dst_file == split(dst)[2]
        mk == src_path # dst_path
        dirs1 == IF mk THEN makedirs(dirsv, dst_path) ELSE dirsv
        c1 == IF mk THEN <<Call("makedirs", dst_path, FALSE)>> ELSE <<>>
        wr == c1 \o <<Call("write", dst, dst \in DOMAIN fsv)>>
    IN
    IF mk /\ stop = "makedirs" THEN Outcome(fsv, dirsv, <<>>, "makedirs")
    ELSE IF src \notin DOMAIN fsv \/ stop = "is_binary"
    THEN Outcome(fsv, dirs1, c1, "is_binary")
    ELSE IF is_binary(fsv[src])
    THEN IF src_file # dst_file THEN Outcome(fsv, dirs1, c1, NoError)
         ELSE IF stop = "copy2"
         THEN Outcome(WithFile(fsv, dst, File(fsv[src].bin, <<>>, DefaultMode)),
                      dirs1, wr, "copy2")
         ELSE Outcome(WithFile(fsv, dst, fsv[src]), dirs1, wr, NoError)
    ELSE LET cooked_text == expand_template_contents(tvars, fsv[src].data)
             fs2 == WithFile(fsv, dst, File(FALSE, cooked_text, fsv[src].mode))
         IN
         IF stop = "open" THEN Outcome(fsv, dirs1, c1, "open")
         ELSE IF stop = "write"
         THEN Outcome(WithFile(fsv, dst, File(FALSE, <<>>, DefaultMode)),
                      dirs1, wr, "write")
         ELSE IF stop = "copystat"
         THEN Outcome(WithFile(fsv, dst, File(FALSE, cooked_text, DefaultMode)),
                      dirs1, wr, "copystat")
         ELSE IF src_file = dst_file
         THEN Outcome(fs2, dirs1, wr \o <<Call("copystat", dst, FALSE)>>, NoError)
         ELSE IF stop = "unlink"
         THEN Outcome(fs2, dirs1, wr \o <<Call("copystat", dst, FALSE)>>, "unlink")
         ELSE IF stop = "rename"
         THEN Outcome(Without(fs2, {src}), dirs1,
                      wr \o <<Call("copystat", dst, FALSE), Call("unlink", src, FALSE)>>,
                      "rename")
         ELSE Outcome(replace_original(fs2, src, dst), dirs1,
                      wr \o <<Call("copystat", dst, FALSE), Call("unlink", src, FALSE),
                              Call("rename", dst, FALSE)>>,
                      NoError)

----------------------------------------------------------------------------
(* expand_template: the temporary name *)

\* the characters random.choices draws from, out of KEY_CHARACTERS
KeyCharacters == {"A", "0"}

\* k of choices(KEY_CHARACTERS, k=12)
SuffixLen == 12

\* the draws of choices(KEY_CHARACTERS, k=12) the model follows
Suffixes == {[i \in 1..SuffixLen |-> c] : c \in KeyCharacters}

\* every file gets a temporary name
same_file_Always(src_file, dst_file) == TRUE

\* src_file == dst_file
same_file(src_file, dst_file) == src_file = dst_file

\* f'{dst_file}-{"".join(choices(KEY_CHARACTERS, k=12))}'
temp_name(dst_file, suffix) == dst_file \o <<"-">> \o suffix

----------------------------------------------------------------------------
(* The script: what is on disk and on the command line when it starts *)

PathP == <<"P">>
PathT == <<"T">>

\* the text of the template's files: a known token and an unknown one
TemplateText ==
    <<"{", "{", "Y", "e", "a", "r", "}", "}", "{", "{", "x", "}", "}">>

TextFile == File(FALSE, TemplateText, "755")
BinaryFile == File(TRUE, TemplateText, "755")

FileA == <<"a">>
FileATemp == temp_name(FileA, [i \in 1..SuffixLen |-> "A"])
FileDC == <<"d", "/", "c">>
FileSB == <<"s", "/", "b">>

\* the templates: any choice among four files, the first one text or binary
Templates ==
    {t \in UNION {[S -> {TextFile, BinaryFile}] :
                      S \in SUBSET {FileA, FileATemp, FileDC, FileSB}} :
        \A q \in DOMAIN t \cap {FileATemp, FileDC, FileSB} : t[q] = TextFile}

\* a directory tree at root holding the files of template t
TreeFiles(root, t) == [q \in {join(root, r) : r \in DOMAIN t} |->
                          t[Slice(q, Len(root) + 2, Len(q))]]
TreeDirs(root, t) ==
    {root} \cup UNION {Ancestors(split(join(root, r))[1]) : r \in DOMAIN t}

GitHead == File(FALSE, <<>>, "644")

\* a git work tree at root: the files of t and the control folder
WorkTreeFiles(root, t) ==
    TreeFiles(root, t) @@ (join(join(root, GitDir), <<"H">>) :> GitHead)
WorkTreeDirs(root, t) == TreeDirs(root, t) \cup {join(root, GitDir)}

\* what is at cwd/T: nothing, a regular file, a folder with the template,
\* or a git work tree with the template
LocalFiles(layout, t) ==
    CASE layout = "none" -> <<>>
      [] layout = "file" -> (abspath(PathT) :> GitHead)
      [] layout = "dir" -> TreeFiles(abspath(PathT), t)
      [] layout = "git" -> WorkTreeFiles(abspath(PathT), t)
LocalDirs(layout, t) ==
    CASE layout = "none" -> {}
      [] layout = "file" -> {}
      [] layout = "dir" -> TreeDirs(abspath(PathT), t)
      [] layout = "git" -> WorkTreeDirs(abspath(PathT), t)

\* what is at cwd/P: nothing, or a folder with one file
PackageFiles(layout) ==
    CASE layout = "none" -> <<>>
      [] layout = "dir" -> (join(abspath(PathP), <<"o">>) :> TextFile)
PackageDirs(layout) == IF layout = "dir" THEN {abspath(PathP)} ELSE {}

\* the command lines: parser.parse_args() with its defaults
CommandLines ==
    [path : {None, PathT},
     use_installed : {None, PathT},
     package : {None, PathP, PathT},
     skip : {<<"s", "/">>},
     no_skip : BOOLEAN,
     title : {None},
     url_slug : {None},
     sublime_version : {<<"4", "1", "6", "9">>}]

FunctionsIdle ==
    /\ file_list = <<>> /\ result = <<>>
    /\ raw = <<>> /\ variables = <<>> /\ cooked = <<>>

Init ==
    /\ pc = "parsed"
    /\ argv \in CommandLines
    /\ args = argv
    /\ repo \in Templates
    /\ \E lt \in {"none", "file", "dir", "git"}, lp \in {"none", "dir"} :
          /\ fs = LocalFiles(lt, repo) @@ PackageFiles(lp)
          /\ dirs = {cwd} \cup LocalDirs(lt, repo) \cup PackageDirs(lp)
          /\ others \in IF lt = "git" THEN SUBSET (DOMAIN repo \cap {FileA}) ELSE {{}}
    /\ job = None /\ idx = 0 /\ log = <<>> /\ error = NoError
    /\ fs0 = fs /\ dirs0 = dirs
    /\ FunctionsIdle

----------------------------------------------------------------------------
(* The script, step by step *)

\* destination of get_input_file_list
job_destination(a) == abspath(join(cwd, a.package))

TemplateData(source, destination, files, tvars) ==
    [source |-> source, destination |-> destination, files |-> files,
     variables |-> tvars]

\* the script raises: the except clause is next
Raise(err) == pc' = "cleanup" /\ error' = err

\* args = parse_cmd_line(): parser.error ends the run with a usage message
Validate ==
    /\ pc = "parsed"
    /\ IF usage_error(argv, fs, dirs)
       THEN pc' = "usage_error" /\ args' = args
       ELSE pc' = "validated" /\ args' = validate_arguments(argv)
    /\ UNCHANGED <<argv, file_list, result, raw, variables, cooked, scriptVars>>

\* get_input_file_list with a local path: the folder is listed with git
\* when it holds a .git folder and walked otherwise. os.walk yields the
\* files in the order of the directory entries, here taken ascending or
\* descending.
ListLocal ==
    /\ pc = "validated" /\ Truthy(args.path)
    /\ LET base_dir == abspath(args.path)
           found == FilesBelow(fs, base_dir)
           tracked == {q \in found : ~StartsWith(q, GitDir \o <<"/">>)} \ others
       IN IF isdir(dirs, join(base_dir, GitDir))
          THEN \E ok \in BOOLEAN :
                 IF ok
                 THEN /\ job' = TemplateData(base_dir, job_destination(args),
                                   get_git_file_list(args, tracked, others),
                                   get_template_variables(args))
                      /\ log' = log \o <<Call("ls-files", base_dir, FALSE)>>
                      /\ idx' = 1 /\ pc' = "expand" /\ error' = error
                 ELSE /\ Raise("git ls-files")
                      /\ UNCHANGED <<job, idx, log>>
          ELSE \E up \in BOOLEAN :
                 /\ job' = TemplateData(base_dir, job_destination(args),
                              get_folder_file_list(args,
                                  IF up THEN Sorted(found) ELSE Reverse(Sorted(found))),
                              get_template_variables(args))
                 /\ idx' = 1 /\ pc' = "expand"
                 /\ UNCHANGED <<log, error>>
    /\ UNCHANGED <<argv, args, file_list, result, raw, variables, cooked,
                   fs, dirs, repo, others, fs0, dirs0>>

\* git clone -b branch --single-branch repo package: the branch is checked
\* out into the package folder, next to the control folder. The command
\* fails when the folder is already there, and may fail otherwise; a failed
\* clone leaves nothing behind.
Clone ==
    /\ pc = "validated" /\ ~Truthy(args.path)
    /\ LET destination == job_destination(args) IN
       \E ok \in BOOLEAN :
          IF ok /\ ~exists(fs, dirs, destination)
          THEN /\ fs' = fs @@ WorkTreeFiles(destination, repo)
               /\ dirs' = dirs \cup WorkTreeDirs(destination, repo)
               /\ log' = log \o <<Call("clone", destination, FALSE)>>
               /\ pc' = "cloned" /\ error' = error
          ELSE /\ Raise("git clone")
               /\ UNCHANGED <<fs, dirs, log>>
    /\ UNCHANGED <<argv, args, file_list, result, raw, variables, cooked,
                   repo, others, job, idx, fs0, dirs0>>

\* files = get_git_file_list(args, destination): in a fresh clone every
\* file is tracked
ListClone ==
    /\ pc = "cloned"
    /\ LET destination == job_destination(args)
           tracked == {q \in FilesBelow(fs, destination) :
                          ~StartsWith(q, GitDir \o <<"/">>)}
       IN \E ok \in BOOLEAN :
            IF ok
            THEN /\ file_list' = get_git_file_list(args, tracked, {})
                 /\ log' = log \o <<Call("ls-files", destination, FALSE)>>
                 /\ pc' = "listed" /\ error' = error
            ELSE /\ Raise("git ls-files")
                 /\ UNCHANGED <<file_list, log>>
    /\ UNCHANGED <<argv, args, result, raw, variables, cooked,
                   fs, dirs, repo, others, job, idx, fs0, dirs0>>

\* rmtree(join(destination, '.git'), ignore_errors=True)
RemoveGit ==
    /\ pc = "listed"
    /\ LET root == join(job_destination(args), GitDir) IN
       \E stuck \in StuckSets(fs, root) :
          LET after == rmtree(fs, dirs, root, stuck) IN
          /\ fs' = after.fs /\ dirs' = after.dirs
          /\ log' = log \o <<Call("rmtree", root, stuck # {})>>
    /\ pc' = "pruned"
    /\ UNCHANGED <<argv, args, file_list, result, raw, variables, cooked,
                   repo, others, job, idx, error, fs0, dirs0>>

\* if args.skip: rmtree(join(destination, args.skip), ignore_errors=True);
\* then the TemplateData of the clone is returned
RemoveSkip ==
    /\ pc = "pruned"
    /\ LET destination == job_destination(args)
           root == join(destination, args.skip)
       IN IF Truthy(args.skip)
          THEN \E stuck \in StuckSets(fs, root) :
                  LET after == rmtree(fs, dirs, root, stuck) IN
                  /\ fs' = after.fs /\ dirs' = after.dirs
                  /\ log' = log \o <<Call("rmtree", root, stuck # {})>>
          ELSE UNCHANGED <<fs, dirs, log>>
    /\ job' = TemplateData(job_destination(args), job_destination(args),
                           file_list, get_template_variables(args))
    /\ idx' = 1 /\ pc' = "expand"
    /\ UNCHANGED <<argv, args, file_list, result, raw, variables, cooked,
                   repo, others, error, fs0, dirs0>>

\* one turn of the loop of expand_template
ExpandFile ==
    /\ pc = "expand" /\ idx <= Len(job.files)
    /\ LET file == job.files[idx]
           src_file == join(job.source, file)
           plain == join(job.destination, file)
       IN \E suffix \in Suffixes, stop \in Stops :
            LET temp == same_file(src_file, plain)
                dst_file == IF temp THEN temp_name(plain, suffix) ELSE plain
                named == IF temp
                         THEN <<Call("tempname", dst_file, exists(fs, dirs, dst_file))>>
                         ELSE <<>>
                out == handle_template_file(fs, dirs, job.variables,
                                            src_file, dst_file, stop)
            IN /\ fs' = out.fs /\ dirs' = out.dirs
               /\ log' = log \o named \o out.calls
               /\ IF out.error = NoError
                  THEN idx' = idx + 1 /\ pc' = pc /\ error' = error
                  ELSE Raise(out.error) /\ idx' = idx
    /\ UNCHANGED <<argv, args, file_list, result, raw, variables, cooked,
                   repo, others, job, fs0, dirs0>>

\* the loop is over and the script ends
Finish ==
    /\ pc = "expand" /\ idx > Len(job.files)
    /\ pc' = "done"
    /\ UNCHANGED <<argv, args, file_list, result, raw, variables, cooked, scriptVars>>

\* except: rmtree(args.package, ignore_errors=True); raise
Cleanup ==
    /\ pc = "cleanup"
    /\ LET root == abspath(args.package) IN
       \E stuck \in StuckSets(fs, root) :
          LET after == rmtree(fs, dirs, root, stuck) IN
          /\ fs' = after.fs /\ dirs' = after.dirs
          /\ log' = log \o <<Call("rmtree", root, stuck # {})>>
    /\ pc' = "failed"
    /\ UNCHANGED <<argv, args, file_list, result, raw, variables, cooked,
                   repo, others, job, idx, error, fs0, dirs0>>

Next ==
    \/ Validate
    \/ ListLocal
    \/ Clone
    \/ ListClone
    \/ RemoveGit
    \/ RemoveSkip
    \/ ExpandFile
    \/ Finish
    \/ Cleanup

Spec == Init /\ [][Next]_vars

----------------------------------------------------------------------------
(* Claims about the script *)

\* get_input_file_list has returned its TemplateData
JobBuilt == idx >= 1

\* the run takes the local branch of get_input_file_list
LocalRun == pc \notin {"parsed", "usage_error"} /\ Truthy(args.path)
RemoteRun == pc \notin {"parsed", "usage_error"} /\ ~Truthy(args.path)

InPlaceJob == JobBuilt /\ job.source = job.destination
CopyOutJob == JobBuilt /\ job.source # job.destination

\* expand_template has just finished a file: the file, its source and its
\* nominal destination
FileDone == JobBuilt /\ idx > 1 /\ pc \in {"expand", "done"}
DoneFile == job.files[idx - 1]
DoneSrc == join(job.source, DoneFile)
DoneDst == join(job.destination, DoneFile)

\* positions of the calls named op in the log
CallsOf(op) == {i \in 1..Len(log) : log[i].op = op}

\* the entry of the log that drew the k-th temporary name; in an in-place
\* job that is the name drawn for job.files[k]
TempOf(k) ==
    log[CHOOSE i \in CallsOf("tempname") :
            Cardinality({j \in CallsOf("tempname") : j <= i}) = k]

\* what TemplateText expands to
ExpandedText == <<"2", "0", "2", "4", "{", "{", "x", "}", "}">>

\* C1: in an in-place job, once expand_template has finished a file whose
\* temporary name was not the name of a file on disk, the file is at its
\* original path, with the expanded text for a text file and the original
\* bytes for a binary file, and no file is left at the temporary name. This
\* stays so while the later files are processed.
C1_InPlaceSingleCopy ==
    (JobBuilt /\ InPlaceJob /\ pc \in {"expand", "done"}) =>
        \A k \in 1..(idx - 1) :
            LET file == job.files[k]
                path == join(job.destination, file)
                temp == TempOf(k)
            IN ~temp.hit =>
                /\ path \in DOMAIN fs
                /\ fs[path].data =
                      IF repo[file].bin THEN repo[file].data
                      ELSE OnePass(job.variables, repo[file].data, 1)
                /\ StartsWith(temp.path, path \o <<"-">>)
                /\ Len(temp.path) = Len(path) + 1 + SuffixLen
                /\ temp.path \notin DOMAIN fs

\* C1 witness: a text file has been expanded in place
C1_Witness ==
    /\ FileDone /\ InPlaceJob /\ ~TempOf(idx - 1).hit
    /\ ~repo[DoneFile].bin
    /\ fs[DoneDst].data = ExpandedText
    /\ log[Len(log)].op = "rename"

\* the call the except clause makes
CleanupCall == log[Len(log)]

Destination == abspath(args.package)

\* nothing of the destination folder is on disk
DestinationGone ==
    /\ ~exists(fs, dirs, Destination)
    /\ \A q \in DOMAIN fs \cup dirs : ~Inside(q, Destination)

FailureIsFinal ==
    /\ (error' # error => (error = NoError /\ pc' = "cleanup"))
    /\ (pc = "cleanup" => (pc' = "failed" /\ Len(log') = Len(log) + 1))
    /\ (pc = "failed" => pc' = "failed")
    /\ (pc \in {"listed", "pruned"} => (pc' # "cleanup" /\ error' = NoError))

InvalidConfiguration ==
    \/ argv.package = None
    \/ exists(fs0, dirs0, abspath(argv.package))
    \/ Truthy(argv.path) /\ Truthy(argv.use_installed)
    \/ Truthy(argv.path) /\ abspath(argv.path) \notin dirs0
    \/ Truthy(argv.use_installed) /\ abspath(argv.use_installed) \notin dirs0

\* C3: with an invalid configuration the run stops at the usage error,
\* before any clone, write or removal: the disk is as it was found.
C3_UsageErrorBeforeMutation ==
    InvalidConfiguration =>
        /\ pc \in {"parsed", "usage_error"}
        /\ fs = fs0 /\ dirs = dirs0
        /\ log = <<>>

\* C3 witness: the package folder is on disk and the run has stopped
C3_Witness ==
    /\ pc = "usage_error"
    /\ argv.package = PathP /\ abspath(PathP) \in dirs0
    /\ ~Truthy(argv.path) /\ ~Truthy(argv.use_installed)

\* the file just finished, as it was before the run
DoneOriginal == IF InPlaceJob THEN repo[DoneFile] ELSE fs0[DoneSrc]

\* C7: a binary file is never expanded. In a copy-out job the file at the
\* destination path has the bytes and the mode of the source file, which is
\* left as it was; in an in-place job the file stays at its path with its
\* bytes, and nothing is written to its temporary name.
C7_BinaryVerbatim ==
    (FileDone /\ DoneOriginal.bin) =>
        /\ DoneDst \in DOMAIN fs
        /\ fs[DoneDst] = DoneOriginal
        /\ CopyOutJob => (DoneSrc \in DOMAIN fs /\ fs[DoneSrc] = DoneOriginal)
        /\ InPlaceJob =>
              /\ log[Len(log)].op = "tempname"
              /\ log[Len(log)].path \notin DOMAIN fs \/ log[Len(log)].hit

\* C7 witness: a binary file that holds token text has been handled in a
\* copy-out job
C7_Witness ==
    /\ FileDone /\ CopyOutJob
    /\ DoneOriginal.bin /\ DoneOriginal.data = TemplateText
    /\ log[Len(log)].op = "write" /\ log[Len(log)].path = DoneDst

\* C7 witness, in place: a binary file of a clone has been passed over
C7_WitnessInPlace ==
    /\ FileDone /\ InPlaceJob
    /\ DoneOriginal.bin /\ DoneOriginal.data = TemplateText
    /\ log[Len(log)].op = "tempname"

DestinationGit == join(Destination, GitDir)

\* C8, as stated: in the remote branch the clone comes before the listing
\* and the listing before the removal of the control folder; when the run
\* ends well the tree holds no control folder, nothing under the skip
\* folder when one is configured, and every path of job.files.
C8_RemoteTreePruned ==
    RemoteRun =>
        /\ \A i \in CallsOf("ls-files") : \E k \in CallsOf("clone") : k < i
        /\ \A i \in CallsOf("rmtree") : log[i].path = DestinationGit =>
               \E k \in CallsOf("ls-files") : k < i
        /\ pc = "done" =>
              /\ \A q \in DOMAIN fs \cup dirs :
                    q # DestinationGit /\ ~Inside(q, DestinationGit)
              /\ Truthy(args.skip) =>
                    \A q \in DOMAIN fs \cup dirs :
                        ~Inside(q, rstrip_sep(join(Destination, args.skip)))
                            /\ q # rstrip_sep(join(Destination, args.skip))
              /\ \A i \in 1..Len(job.files) :
                    join(Destination, job.files[i]) \in DOMAIN fs

\* C9: a job built from a validated local path is a copy-out job; no file
\* that was on disk is written, deleted or renamed; every write goes below
\* the destination folder; no temporary name is drawn and the
\* delete-and-rename step is not taken.
C9_LocalIsCopyOut ==
    (LocalRun /\ JobBuilt) =>
        /\ job.source # job.destination
        /\ job.source = abspath(args.path)
        /\ \A q \in DOMAIN fs0 : q \in DOMAIN fs /\ fs[q] = fs0[q]
        /\ \A i \in CallsOf("write") \cup CallsOf("copystat") :
              Inside(log[i].path, job.destination)
        /\ CallsOf("tempname") \cup CallsOf("unlink") \cup CallsOf("rename") = {}

\* C9 witness: a local template with a text file has been copied out
C9_Witness ==
    /\ LocalRun /\ JobBuilt /\ pc = "done"
    /\ \E i \in 1..Len(job.files) :
          /\ ~fs0[join(job.source, job.files[i])].bin
          /\ fs[join(job.destination, job.files[i])].data = ExpandedText

\* C10, as stated: the temporary name drawn for a file of an in-place job is
\* never the path of a file on disk, whatever the suffix, so writing the
\* temporary file overwrites nothing.
C10_TempNameCollisionFree ==
    /\ \A i \in CallsOf("tempname") : ~log[i].hit
    /\ InPlaceJob => \A i \in CallsOf("write") : ~log[i].hit

====
